---------------------------- MODULE Spec2Model ----------------------------
(***************************************************************************)
(* Media-to-text extraction pipeline of src/app.py: download_audio,        *)
(* get_whisper_model (memoised by st.cache_resource), transcribe_audio,    *)
(* generate_summary and the "Extract Text" button handler.                 *)
(*                                                                         *)
(* Every browser session runs the script in its own thread, so several      *)
(* pipeline runs may be in progress at once; they share the temp           *)
(* directory, the model cache and the atexit registry of the process.      *)
(***************************************************************************)
EXTENDS Integers, Sequences, FiniteSets, TLC

\* ------------------------------------------------------------ bounds ----
NSessions == 2        \* browser sessions (script threads) of the process
MaxRuns == 2          \* button clicks handled during the life of the process
MaxClock == 2         \* last tick of the wall clock
TicksPerSecond == 2   \* clock ticks in one second of wall-clock time
NSizes == 2           \* how many of the selectbox's model sizes are used
MaxCalls == 2         \* direct calls of generate_summary that are logged

\* ------------------------------------------------------- input domains --
Sessions == 1..NSessions
AllSizes == <<"tiny", "base", "small", "medium", "large">>
ModelSizes == {AllSizes[i] : i \in 1..NSizes}
Urls == {"", "https://youtu.be/x"}
Exts == {"webm", "opus"}                 \* container of the fetched stream
Texts == {"", "hello world"}             \* what the engine may return
Summaries == {"", "a summary"}           \* what response.text may be

\* the Summary Length selectbox, lines 160-164
SupportedLengths ==
    {"Short (1-2 sentences)", "Medium (paragraph)",
     "Detailed (multiple paragraphs)"}
\* values a caller of generate_summary may pass
Lengths == SupportedLengths \cup {"Custom", ""}

None == "None"
Unset == "unset"
NoPath == <<"none", 0, "">>

\* ------------------------------------------------------- pure helpers ---
\* bool(x) as used by `if audio_path:`, `if text:` and `if summary:`
Truthy(v) == v # None /\ v # ""

\* datetime.now().strftime("%Y%m%d_%H%M%S"): the clock cut to whole seconds
Timestamp(now) == now \div TicksPerSecond

\* os.path.join(temp_dir, f'podcast_{timestamp}.%(ext)s') with ext filled in
PodcastPath(ts, ext) == <<"podcast", ts, ext>>

\* filename.replace('.webm', '.mp3').replace('.m4a', '.mp3')
ReplaceExt(p) == IF p[3] \in {"webm", "m4a"} THEN <<p[1], p[2], "mp3">> ELSE p

\* the name tempfile.NamedTemporaryFile(suffix='.wav') picks: never one in use
TmpPath(n) == <<"tmp", n, "wav">>

\* handler, line 329: `if audio_path:` decides whether transcription runs
AfterDownload(ret) == IF ret # NoPath THEN "transcribe" ELSE "done"

\* handler, line 333: `if text:` decides whether the results are shown
AfterTranscribeAlways(text) == "cleanup"
AfterTranscribeRetry(text) ==
    IF Truthy(text) THEN "cleanup"
    ELSE IF text = None THEN "transcribe" ELSE "done"
AfterTranscribe(text) == IF Truthy(text) THEN "cleanup" ELSE "done"

\* handler, lines 358-367: what the Summary tab shows
SummaryTabSilent(summary) == IF Truthy(summary) THEN "summary" ELSE Unset
SummaryTab(summary) == IF Truthy(summary) THEN "summary" ELSE "unavailable"

\* st.cache_resource: an entry exists for the argument value
CacheHitNever(c, size) == FALSE
CacheHit(c, size) == c[size] # "absent"

\* the dict literal of lines 254-258
LengthPrompt ==
    [l \in SupportedLengths |->
        CASE l = "Short (1-2 sentences)" ->
                "Provide a very concise summary in 1-2 sentences."
          [] l = "Medium (paragraph)" ->
                "Provide a summary in one short paragraph."
          [] l = "Detailed (multiple paragraphs)" ->
                "Provide a detailed summary in multiple paragraphs."]

KeyError == "KeyError"

\* {...}[length], line 258: a subscript, which raises KeyError for a key
\* that is not in the dict
LookupWithDefault(length) ==
    IF length \in DOMAIN LengthPrompt THEN LengthPrompt[length]
    ELSE LengthPrompt["Medium (paragraph)"]
Lookup(length) ==
    IF length \in DOMAIN LengthPrompt THEN LengthPrompt[length] ELSE KeyError

\* generate_summary, lines 250-273: the instruction put into the prompt,
\* whether model.generate_content was called, and the value returned.  svc
\* is what the service does when called: a response text, or "raise".
GenerateSummary(text, length, svc) ==
    LET instr == Lookup(length)
    IN IF instr = KeyError
       THEN [length |-> length, text |-> text, instruction |-> KeyError,
             called |-> FALSE, ret |-> None]
       ELSE [length |-> length, text |-> text, instruction |-> instr,
             called |-> TRUE, ret |-> IF svc = "raise" THEN None ELSE svc]

\* except PermissionError (line 309): the only unlink failure that is handled
UnlinkHandled(kind) == kind = "perm"

\* --------------------------------------------------------------- state --
VARIABLES
    clock,      \* wall clock, in ticks
    ffmpeg,     \* os.path.exists(FFMPEG_PATH)
    files,      \* paths that exist in the temp directory
    cacheDir,   \* ~/.cache/whisper exists
    cache,      \* st.cache_resource entries of get_whisper_model, by size
    loads,      \* number of whisper.load_model calls, by size
    atexit,     \* temp paths with a cleanup registered through atexit
    nextTmp,    \* next unused temporary-file name
    started,    \* button clicks handled so far
    run,        \* per session: the position and locals of its script run
    gs          \* log of the generate_summary calls made outside the handler

vars == <<clock, ffmpeg, files, cacheDir, cache, loads, atexit, nextTmp,
          started, run, gs>>

IdleRun ==
    [pc |-> "idle", size |-> AllSizes[1],
     \* locals of the handler and what it has put on the page
     audio_path |-> NoPath, text |-> Unset, summary |-> Unset,
     shown |-> Unset, tab |-> Unset, errors |-> {}, warned |-> FALSE,
     \* the functions and collaborators called so far, in order
     calls |-> <<>>,
     \* what the call that returned last did: download_audio (dlRet, wrote)
     \* or transcribe_audio (resolve, tmp, engine, unlink)
     dlRet |-> Unset, wrote |-> {},
     resolve |-> Unset, tmp |-> NoPath, engine |-> Unset, unlink |-> Unset]

\* the record once the handler goes on after transcribe_audio: the locals of
\* the calls that have returned are gone
Forget(r) ==
    [r EXCEPT !.dlRet = Unset, !.wrote = {}, !.resolve = Unset,
              !.tmp = NoPath, !.engine = Unset, !.unlink = Unset]

Init ==
    /\ clock = 0
    /\ ffmpeg \in BOOLEAN
    /\ files = {}
    /\ cacheDir = FALSE
    /\ cache = [s \in ModelSizes |-> "absent"]
    /\ loads = [s \in ModelSizes |-> 0]
    /\ atexit = {}
    /\ nextTmp = 1
    /\ started = 0
    /\ run = [s \in Sessions |-> IdleRun]
    /\ gs = <<>>

Active(s) == run[s].pc \notin {"idle", "done"}

\* ------------------------------------------------------------ actions ---
\* time passes.  The clock is read at line 198 only, so a tick is taken
\* only while some run is about to read it.
Tick ==
    /\ clock < MaxClock
    /\ \E s \in Sessions : run[s].pc = "download"
    /\ clock' = clock + 1
    /\ UNCHANGED <<gs, ffmpeg, files, cacheDir, cache, loads, atexit, nextTmp,
                   started, run>>

\* lines 321-325: the button is clicked; an empty URL only draws a warning
Start(s) ==
    /\ ~Active(s)
    /\ started < MaxRuns
    /\ started' = started + 1
    /\ \E u \in Urls, size \in ModelSizes :
          run' = [run EXCEPT ![s] =
                    IF u = ""
                    THEN [IdleRun EXCEPT !.pc = "done", !.warned = TRUE]
                    ELSE [IdleRun EXCEPT !.pc = "download", !.size = size]]
    /\ UNCHANGED <<gs, clock, ffmpeg, files, cacheDir, cache, loads, atexit,
                   nextTmp>>

\* What ydl.extract_info(url, download=True) may do with the output template:
\*   "raise"        fails before anything is written
\*   "raise_partial" the stream is stored, then post-processing raises
\*   "ok"           the stream is stored and FFmpegExtractAudio leaves the .mp3
\*   "ok_noconvert" returns normally although no output file was produced
FetchOutcomes == {"raise", "raise_partial", "ok", "ok_noconvert"}

FetchWrites(outcome, ts, ext) ==
    CASE outcome = "raise" -> {}
      [] outcome = "raise_partial" -> {PodcastPath(ts, ext)}
      [] outcome = "ok" -> {PodcastPath(ts, "mp3")}
      [] outcome = "ok_noconvert" -> {}

\* os.path.exists(audio_path), line 226: the check made before a path is
\* returned
OutputExistsUnchecked(fs, path) == TRUE
OutputExists(fs, path) == path \in fs

\* download_audio, lines 190-234, and the handler's line 329
Download(s) ==
    /\ run[s].pc = "download"
    /\ LET r == [run[s] EXCEPT !.calls = Append(@, "download_audio")]
           ts == Timestamp(clock)
       IN IF ~ffmpeg
          THEN /\ files' = files
               /\ run' = [run EXCEPT ![s] =
                     [r EXCEPT !.dlRet = None,
                               !.errors = @ \cup {"acquisition"},
                               !.pc = AfterDownload(NoPath)]]
          ELSE \E outcome \in FetchOutcomes, ext \in Exts :
                 LET w == FetchWrites(outcome, ts, ext)
                     fs == files \cup w
                     raised == outcome \in {"raise", "raise_partial"}
                     path == ReplaceExt(PodcastPath(ts, ext))
                     ok == ~raised /\ OutputExists(fs, path)
                     ret == IF ok THEN path ELSE NoPath
                 IN /\ files' = fs
                    /\ run' = [run EXCEPT ![s] =
                          [r EXCEPT !.wrote = w,
                                    !.calls = Append(@, "extract_info"),
                                    !.dlRet = IF ok THEN "path" ELSE None,
                                    !.audio_path = ret,
                                    !.errors = IF ok THEN @
                                               ELSE @ \cup {"acquisition"},
                                    !.pc = AfterDownload(ret)]]
    /\ UNCHANGED <<gs, clock, ffmpeg, cacheDir, cache, loads, atexit, nextTmp,
                   started>>

\* get_whisper_model under st.cache_resource, lines 236-249: how one call can
\* go.  A hit runs no code of the function; a miss runs the body, which
\* creates the cache directory when it is absent and then calls
\* whisper.load_model.
Resolutions(c, dir, size) ==
    IF CacheHit(c, size) THEN {"hit"}
    ELSE {"load_ok", "load_fail"} \cup (IF dir THEN {} ELSE {"mkdir_fail"})

\* the value get_whisper_model returns: the model, or None after the except
ModelOf(c, size, res) ==
    CASE res = "hit" -> c[size]
      [] res = "load_ok" -> "model"
      [] OTHER -> "none"

\* st.cache_resource stores whatever the function returned, None included
CacheAfter(c, size, res) ==
    IF res = "hit" THEN c ELSE [c EXCEPT ![size] = ModelOf(c, size, res)]

\* whisper.load_model is reached unless the call was a hit or makedirs raised
LoadCalled(res) == res \in {"load_ok", "load_fail"}

\* os.path.exists(audio_path), lines 278-280: the source is checked before
\* anything else is done
SourceExistsUnchecked(fs, path) == TRUE
SourceExists(fs, path) == path \in fs

\* lines 283-289: the temporary file is created after the model was
\* resolved, and only when there is a model
CreatesTempFirst(m) == TRUE
CreatesTemp(m) == m # "none"

\* how os.unlink(temp_wav_path) may end: it succeeds, raises PermissionError,
\* or raises another OSError (EBUSY, EIO, EROFS, ...)
UnlinkOutcomes == {"ok", "perm", "os"}

\* What happens between the creation of the temporary file and the finally
\* block (lines 288-303): NamedTemporaryFile raises ("notmp"), the
\* conversion or copy raises ("noconv"), the engine raises ("noengine"), or
\* the engine returns a text.
BodyOutcomes == {"notmp", "noconv", "noengine"} \cup Texts

\* transcribe_audio, lines 274-319, and the handler's line 333.  When the
\* cache serves a stored None, st.cache_resource replays the st.error that
\* the stored call made, so a failed resolution is reported on a hit too.
\* The two branches of line 293 (convert, copy) both read the source, write
\* the temporary file and call the engine, and are one case here.
Transcribe(s) ==
    /\ run[s].pc = "transcribe"
    /\ LET r == [run[s] EXCEPT !.calls = Append(@, "transcribe_audio"),
                               !.dlRet = Unset, !.wrote = {}]
           fail(rr) == [rr EXCEPT !.text = None,
                                  !.errors = @ \cup {"transcription"},
                                  !.pc = AfterTranscribe(None)]
       IN IF ~SourceExists(files, r.audio_path)
          THEN /\ run' = [run EXCEPT ![s] = fail(r)]
               /\ UNCHANGED <<files, cacheDir, cache, loads, nextTmp, atexit>>
          ELSE \E res \in Resolutions(cache, cacheDir, r.size) :
                 LET m == ModelOf(cache, r.size, res)
                     r1 == [r EXCEPT !.resolve = res,
                                     !.calls = Append(@, "get_whisper_model")]
                 IN /\ cache' = CacheAfter(cache, r.size, res)
                    /\ cacheDir' = (cacheDir \/ LoadCalled(res))
                    /\ loads' = IF LoadCalled(res)
                                THEN [loads EXCEPT ![r.size] = @ + 1]
                                ELSE loads
                    /\ IF m = "none"
                       THEN LET early == CreatesTemp(m)
                                tmp == TmpPath(nextTmp)
                            IN /\ run' = [run EXCEPT ![s] =
                                     fail([r1 EXCEPT !.tmp = IF early THEN tmp
                                                             ELSE NoPath])]
                               /\ files' = IF early THEN files \cup {tmp}
                                           ELSE files
                               /\ nextTmp' = IF early THEN nextTmp + 1
                                             ELSE nextTmp
                               /\ atexit' = atexit
                       ELSE \E body \in BodyOutcomes, del \in UnlinkOutcomes :
                              LET tmp == TmpPath(nextTmp)
                                  made == CreatesTemp(m) /\ body # "notmp"
                                  raisedBody == body \notin Texts
                                  raisedFinally ==
                                      made /\ del # "ok" /\ ~UnlinkHandled(del)
                                  ret == IF raisedBody \/ raisedFinally
                                         THEN None ELSE body
                              IN /\ (~made) => del = "ok"
                                 \* reading a source that is gone raises
                                 /\ (r.audio_path \notin files)
                                       => body \in {"notmp", "noconv"}
                                 /\ nextTmp' = IF made THEN nextTmp + 1
                                               ELSE nextTmp
                                 /\ files' = IF made /\ del # "ok"
                                             THEN files \cup {tmp} ELSE files
                                 /\ atexit' =
                                      IF made /\ del # "ok" /\ UnlinkHandled(del)
                                      THEN atexit \cup {tmp} ELSE atexit
                                 /\ run' = [run EXCEPT ![s] =
                                      [r1 EXCEPT
                                         !.tmp = IF made THEN tmp ELSE NoPath,
                                         !.engine = IF body \in Texts
                                                    THEN body ELSE Unset,
                                         !.unlink = IF made THEN del ELSE Unset,
                                         !.calls =
                                            IF body \in Texts \cup {"noengine"}
                                            THEN Append(@, "transcribe") ELSE @,
                                         !.text = ret,
                                         !.errors =
                                            IF ret = None
                                            THEN @ \cup {"transcription"} ELSE @,
                                         !.pc = AfterTranscribe(ret)]]
    /\ UNCHANGED <<gs, clock, ffmpeg, started>>

\* handler, lines 333-351: remove the acquired file, show the transcript.
\* An exception of os.remove is caught nowhere: the script run stops and
\* the framework shows the exception.
ShowTranscript(s) ==
    /\ run[s].pc = "cleanup"
    /\ LET r == Forget(run[s])
           shown == [r EXCEPT !.shown = r.text, !.pc = "summarize"]
       IN IF r.audio_path \in files
          THEN \E rm \in {"ok", "raise"} :
                 IF rm = "ok"
                 THEN /\ files' = files \ {r.audio_path}
                      /\ run' = [run EXCEPT ![s] = shown]
                 ELSE /\ files' = files
                      /\ run' = [run EXCEPT ![s] =
                            [r EXCEPT !.errors = @ \cup {"unhandled"},
                                      !.pc = "done"]]
          ELSE /\ files' = files
               /\ run' = [run EXCEPT ![s] = shown]
    /\ UNCHANGED <<gs, clock, ffmpeg, cacheDir, cache, loads, atexit, nextTmp,
                   started>>

\* the handler's call of generate_summary with the selectbox value, and
\* the Summary tab, lines 354-367
Summarize(s) ==
    /\ run[s].pc = "summarize"
    /\ \E length \in SupportedLengths, svc \in Summaries \cup {"raise"} :
          LET r == run[s]
              g == GenerateSummary(r.text, length, svc)
          IN run' = [run EXCEPT ![s] =
                [r EXCEPT !.calls = @ \o <<"generate_summary">>
                                      \o (IF g.called
                                          THEN <<"generate_content">>
                                          ELSE <<>>),
                          !.summary = g.ret,
                          !.errors = IF g.ret = None THEN @ \cup {"summary"}
                                     ELSE @,
                          !.tab = SummaryTab(g.ret),
                          !.pc = "done"]]
    /\ UNCHANGED <<gs, clock, ffmpeg, files, cacheDir, cache, loads, atexit,
                   nextTmp, started>>

\* generate_summary called on its own, with any text and any length value
CallGenerateSummary ==
    /\ Len(gs) < MaxCalls
    /\ \E text \in Texts, length \in Lengths, svc \in Summaries \cup {"raise"} :
          gs' = Append(gs, GenerateSummary(text, length, svc))
    /\ UNCHANGED <<clock, ffmpeg, files, cacheDir, cache, loads, atexit,
                   nextTmp, started, run>>

Next ==
    \/ Tick
    \/ \E s \in Sessions : Start(s)
    \/ \E s \in Sessions : Download(s)
    \/ \E s \in Sessions : Transcribe(s)
    \/ \E s \in Sessions : ShowTranscript(s)
    \/ \E s \in Sessions : Summarize(s)

\* ------------------------------------------------------- vocabulary -----
Ended(s) == run[s].pc = "done"

\* download_audio has returned None in the run
DownloadFailed(r) == r.calls # <<>> /\ r.audio_path = NoPath

\* the stage functions the handler has called, in order
Stages(r) ==
    SelectSeq(r.calls, LAMBDA c : c \in {"download_audio", "transcribe_audio",
                                         "generate_summary"})

IsPrefix(a, b) == Len(a) <= Len(b) /\ a = SubSeq(b, 1, Len(a))

\* st.error of the acquisition or transcription stage, or an uncaught exception
RequestErrors == {"acquisition", "transcription", "unhandled"}

\* the three outcomes of a run
BothDelivered(r) == r.shown # Unset /\ r.tab = "summary"
TranscriptOnly(r) == r.shown # Unset /\ r.tab = "unavailable"
FailureReported(r) == r.shown = Unset /\ r.errors \cap RequestErrors # {}

\* --------------------------------------------------------------- claims --
\* C1: when a run in which download_audio returned a path has ended, the
\* acquired file no longer exists, whatever transcription and summarization
\* did.
C1_AcquiredFileGoneAtEnd ==
    \A s \in Sessions :
        (Ended(s) /\ run[s].audio_path # NoPath)
            => run[s].audio_path \notin files

\* C2: when transcribe_audio has returned after creating the temporary .wav
\* copy, the copy no longer exists or a cleanup for it is registered with
\* atexit, on every exit path.
C2_TempGoneOrDeferred ==
    \A s \in Sessions :
        run[s].tmp # NoPath
            => (run[s].tmp \notin files \/ run[s].tmp \in atexit)

\* C3: after a failed construction of the model for a size, the cache holds
\* no entry for that size, so the next request loads again.
C3_FailedLoadNotCached ==
    \A s \in Sessions :
        run[s].resolve \in {"load_fail", "mkdir_fail"}
            => cache[run[s].size] = "absent"

\* C4: a run started with a non-empty URL ends in exactly one of: transcript
\* and summary delivered, transcript delivered with the summary marked
\* unavailable, failure reported; and a summary is never delivered without a
\* transcript.
C4_ExactlyOneOutcome ==
    \A s \in Sessions :
        LET r == run[s]
        IN (Ended(s) /\ r.calls # <<>>)
              => /\ Cardinality({o \in {"both", "only", "failure"} :
                        \/ o = "both" /\ BothDelivered(r)
                        \/ o = "only" /\ TranscriptOnly(r)
                        \/ o = "failure" /\ FailureReported(r)}) = 1
                 /\ (r.tab = "summary" => r.shown # Unset)

\* C5: the stages are called in the order download_audio, transcribe_audio,
\* generate_summary; after a failed download neither later stage is called,
\* after a failed transcription generate_summary is not called, and the
\* failing stage has reported its failure.
C5_StagesShortCircuit ==
    \A s \in Sessions :
        LET r == run[s]
        IN /\ IsPrefix(Stages(r), <<"download_audio", "transcribe_audio",
                                    "generate_summary">>)
           /\ DownloadFailed(r)
                 => /\ Stages(r) = <<"download_audio">>
                    /\ "acquisition" \in r.errors
           /\ r.text = None
                 => /\ Stages(r) = <<"download_audio", "transcribe_audio">>
                    /\ "transcription" \in r.errors

C5_Witness ==
    \E s, t \in Sessions :
        /\ Ended(s) /\ DownloadFailed(run[s])
        /\ Ended(t) /\ run[t].text = None

\* C6: when generate_summary fails after a transcript was produced, the run
\* ends with that transcript shown unchanged and the summary marked
\* unavailable, and no request failure is reported.
C6_SummaryFailureKeepsTranscript ==
    \A s \in Sessions :
        LET r == run[s]
        IN (Ended(s) /\ r.summary = None)
              => /\ Truthy(r.text)
                 /\ r.shown = r.text
                 /\ TranscriptOnly(r)
                 /\ ~FailureReported(r)
                 /\ r.errors \cap RequestErrors = {}

C6_Witness ==
    \E s \in Sessions :
        Ended(s) /\ run[s].summary = None /\ run[s].shown = "hello world"

\* C7 as stated: whisper.load_model is called at most once for a size that
\* loaded, and the first request for a size without a cache entry always
\* calls it.
C7_FirstRequestAlwaysLoads ==
    [][\A z \in ModelSizes :
          /\ cache'[z] = "model" => loads'[z] <= 1
          /\ (cache[z] = "absent" /\ cache'[z] # "absent")
                => loads'[z] = loads[z] + 1]_vars

\* C7 amended: whisper.load_model is called at most once for a size that
\* loaded, and the first request for a size without a cache entry calls it
\* unless the model directory is missing and cannot be created.
C7_LoadOncePerSize ==
    [][\A z \in ModelSizes :
          /\ cache'[z] = "model" => loads'[z] <= 1
          /\ (cache[z] = "absent" /\ cache'[z] # "absent")
                => \/ loads'[z] = loads[z] + 1
                   \/ ~cacheDir /\ ~cacheDir' /\ loads'[z] = loads[z]]_vars

C7_Witness ==
    \E s, t \in Sessions :
        /\ s # t
        /\ run[s].resolve = "load_ok"
        /\ run[t].resolve = "hit"
        /\ run[s].size = run[t].size
        /\ loads[run[s].size] = 1

\* C8: when the engine produced a text and the deletion of the temporary
\* copy fails, transcribe_audio returns that text and a cleanup is registered
\* with atexit.
C8_UnlinkFailureKeepsText ==
    \A s \in Sessions :
        LET r == run[s]
        IN (r.engine \in Texts /\ r.unlink \in {"perm", "os"})
              => (r.text = r.engine /\ r.tmp \in atexit)

\* C9: when download_audio has returned None, no file written by that call
\* remains in the temp directory.
C9_FailedDownloadLeavesNothing ==
    \A s \in Sessions :
        run[s].dlRet = None => run[s].wrote \cap files = {}

\* C10: two runs in progress at the same time never hold the same acquired
\* path.
C10_DistinctPaths ==
    \A s, t \in Sessions :
        (s # t /\ Active(s) /\ Active(t) /\ run[s].audio_path # NoPath
              /\ run[t].audio_path # NoPath)
            => run[s].audio_path # run[t].audio_path

\* C11: download_audio returns a path only if a file exists at exactly that
\* path when it returns; otherwise (also when the fetcher returned normally
\* but the expected file is absent) it returns None and reports the failure.
C11_PathReturnedOnlyIfPresent ==
    [][\A s \in Sessions :
          (run[s].pc = "download" /\ run'[s].pc # "download")
             => IF run'[s].dlRet = "path"
                THEN /\ run'[s].audio_path # NoPath
                     /\ run'[s].audio_path \in files'
                ELSE /\ run'[s].dlRet = None
                     /\ run'[s].audio_path = NoPath
                     /\ "acquisition" \in run'[s].errors]_vars

\* one download returned its path, another returned None although the
\* fetcher had stored the .mp3 (under a name other than the expected one)
C11_Witness ==
    \E s, t \in Sessions :
        /\ run[s].dlRet = "path" /\ run[s].audio_path \in files
        /\ run[t].dlRet = None
        /\ \E p \in run[t].wrote : p[3] = "mp3"

\* C12: generate_summary gives each of the three supported length values an
\* instruction that differs from the other two, and for any other value it
\* returns None without calling model.generate_content.
C12_VerbosityMapping ==
    /\ \A i, j \in 1..Len(gs) :
          (gs[i].length \in SupportedLengths /\ gs[j].length \in SupportedLengths
              /\ gs[i].length # gs[j].length)
             => /\ gs[i].instruction # KeyError
                /\ gs[j].instruction # KeyError
                /\ gs[i].instruction # gs[j].instruction
    /\ \A i \in 1..Len(gs) :
          gs[i].length \notin SupportedLengths
             => (~gs[i].called /\ gs[i].ret = None)

C12_Witness ==
    \E i, j \in 1..Len(gs) :
        /\ gs[i].length \notin SupportedLengths /\ ~gs[i].called
        /\ gs[j].length \in SupportedLengths /\ gs[j].called

\* the step of session s is a call of transcribe_audio that returns
TranscribeReturns(s) == run[s].pc = "transcribe" /\ run'[s] # run[s]

\* C13: when the acquired path does not exist as transcribe_audio begins,
\* the call fails and has resolved or loaded no model, created no temporary
\* copy and not invoked the engine.
C13_MissingSourceFailsFirst ==
    [][\A s \in Sessions :
          (TranscribeReturns(s) /\ run[s].audio_path \notin files)
             => /\ run'[s].text = None
                /\ "transcription" \in run'[s].errors
                /\ run'[s].calls = Append(run[s].calls, "transcribe_audio")
                /\ run'[s].resolve = Unset
                /\ run'[s].tmp = NoPath
                /\ UNCHANGED <<cache, loads, cacheDir, files, nextTmp>>]_vars

C13_Witness ==
    \E s \in Sessions :
        /\ Ended(s)
        /\ run[s].audio_path # NoPath
        /\ run[s].audio_path \notin files
        /\ run[s].text = None
        /\ run[s].calls = <<"download_audio", "extract_info",
                            "transcribe_audio">>

\* how often the run has called c
Count(r, c) == Len(SelectSeq(r.calls, LAMBDA x : x = c))

\* C14: within one run the fetcher, the model resolution, the engine and the
\* summarization service are each called at most once, also when they fail.
C14_NoRetry ==
    \A s \in Sessions :
        \A c \in {"extract_info", "get_whisper_model", "transcribe",
                  "generate_content"} :
            Count(run[s], c) <= 1

C14_Witness ==
    \E s, t \in Sessions :
        /\ Ended(s) /\ run[s].summary = None
        /\ \A c \in {"extract_info", "get_whisper_model", "transcribe",
                     "generate_content"} : Count(run[s], c) = 1
        /\ Ended(t) /\ run[t].text = None /\ Count(run[t], "transcribe") = 1

Spec == Init /\ [][Next]_vars

\* generate_summary as a function of its arguments
SpecGS == Init /\ [][CallGenerateSummary]_vars
=============================================================================
